---- MODULE Spec2Model ----
(***************************************************************************)
(* The streaming chat turn of coreoutline-llm: ChatInterface (the          *)
(* conversation log and the stream reader), ChatInput (the submission      *)
(* guard) and ChatMessage (the typewriter reveal).                         *)
(*                                                                         *)
(* Text is a sequence of one-character strings, so that includes,          *)
(* startsWith, slice, replace and trim are computed character by           *)
(* character as the JavaScript does.  A fixed message of the program that  *)
(* no operation looks into is a one-element sequence holding the message.  *)
(*                                                                         *)
(* One action is one JavaScript task: an event handler, or the             *)
(* continuation of streamAIResponse after an await, together with the      *)
(* React render and the effects of ChatMessage that the task's state       *)
(* updates cause (React batches the updates of a task into one render).    *)
(*                                                                         *)
(* The state of an unmounted view is gone: it is kept at the values of     *)
(* Init, on which the state updates of a continuation of streamAIResponse  *)
(* that still runs have no effect.                                         *)
(***************************************************************************)
EXTENDS Integers, Sequences, FiniteSets, TLC

\* ------------------------------------------------------------------ bounds
\* Submissions accepted in a run.
MaxTurns == 2
\* Chunks read from the responses of a run.
MaxChunks == 2

\* Milliseconds that pass between the previous reading of Date.now() and the
\* first reading of a submission: the same millisecond or the next one.  Ids
\* are only compared for equality, and a later reading gives no other
\* equalities than the next millisecond does.
Elapsed == {0, 1}
\* Ids are only compared with each other, so the run is counted from the
\* first reading of Date.now().
FirstReading == {0}
\* Milliseconds between the two readings of Date.now() in handleSendMessage,
\* which one task takes: a later second reading only moves the assistant's id
\* further from the user's.
Between == {0}

\* ------------------------------------------------------------------ text
DONE == <<"[", "D", "O", "N", "E", "]">>
ENDOFTEXT == <<"<", "|", "e", "n", "d", "o", "f", "t", "e", "x", "t", "|", ">">>
ERRORPREFIX == <<"E", "R", "R", "O", "R", ":">>

\* String.prototype.startsWith
StartsWith(s, pat) ==
    /\ Len(s) >= Len(pat)
    /\ SubSeq(s, 1, Len(pat)) = pat

\* String.prototype.includes
Includes(s, pat) ==
    \E i \in 0..(Len(s) - Len(pat)) : SubSeq(s, i + 1, i + Len(pat)) = pat

\* String.prototype.slice(start), start counted from 0
Slice(s, start) == SubSeq(s, start + 1, Len(s))

\* String.prototype.slice(0, end)
SliceTo(s, end) == SubSeq(s, 1, IF end < Len(s) THEN end ELSE Len(s))

\* String.prototype.replace(/pat/g, ""): one pass from the left, the matches
\* do not overlap and the result is not scanned again.
RECURSIVE ReplaceAll(_, _)
ReplaceAll(s, pat) ==
    IF Len(s) < Len(pat) THEN s
    ELSE IF SubSeq(s, 1, Len(pat)) = pat
         THEN ReplaceAll(SubSeq(s, Len(pat) + 1, Len(s)), pat)
         ELSE <<Head(s)>> \o ReplaceAll(Tail(s), pat)

IsSpace(c) == c = " "

RECURSIVE TrimStart(_)
TrimStart(s) ==
    IF s # <<>> /\ IsSpace(Head(s)) THEN TrimStart(Tail(s)) ELSE s

RECURSIVE TrimEnd(_)
TrimEnd(s) ==
    IF s # <<>> /\ IsSpace(s[Len(s)]) THEN TrimEnd(SubSeq(s, 1, Len(s) - 1)) ELSE s

\* String.prototype.trim
Trim(s) == TrimEnd(TrimStart(s))

\* ------------------------------------------------------------------ inputs
\* What the user types into the textarea.
Typed == { <<" ", "q", " ">> }

\* The question of the suggestion card.
Question == <<"s">>

\* Decoded chunks the response can deliver.
Chunks ==
    { <<>>,
      <<"a">>,
      DONE,
      <<"a">> \o DONE \o <<"b">>,
      ERRORPREFIX \o <<"f", "o">>,
      ERRORPREFIX \o <<" ", "f", "o">>,
      ENDOFTEXT,
      <<"a">> \o ENDOFTEXT \o <<"b">> \o ENDOFTEXT }

\* Decoded chunks of a response whose chunk boundaries fall inside a sentinel:
\* [DONE] cut in two, and <|endoftext|> cut in two with a whole sentinel
\* between the halves.
SplitChunks ==
    { SubSeq(DONE, 1, 3),
      SubSeq(DONE, 4, 6),
      SubSeq(ENDOFTEXT, 1, 6),
      ENDOFTEXT \o SubSeq(ENDOFTEXT, 7, 13) }

\* ------------------------------------------------------------------ state
VARIABLES
    messages,         \* ChatInterface: the conversation log
    isLoading,        \* ChatInterface: a turn is in flight
    suggestions,      \* ChatInterface: the suggestion cards loaded
    showSuggestions,  \* ChatInterface
    toasts,           \* the notifications surfaced, oldest first
    inputMessage,     \* ChatInput: the text of the textarea
    chat,             \* ChatMessage: displayedText and currentIndex, per entry
    timers,           \* ChatMessage: the timers set and neither fired nor cleared
    mounted,          \* the view is mounted
    pc,               \* where streamAIResponse waits: idle, fetch or read
    aiMessageId,      \* the aiMessageId argument of streamAIResponse
    now,              \* the last value read from Date.now()
    requests,         \* POSTs issued to api/predict/stream
    suggestionsPc,    \* pending until the GET of api/suggestions settles
    received,         \* history: the chunks read in the turn in flight
    outcome,          \* history: how the last turn ended
    lastChunk,        \* history: the chunk the last pass of the read loop read
    reads,            \* history: the chunks read in the run
    appended,         \* history: the text the last pass of the read loop appended
    response,         \* history: ok and body of the response of the last turn
    cancelled,        \* history: a removal or the unmount cleared a pending timer
    rejected          \* history: a submission was refused in the turn in flight

vars == <<messages, isLoading, suggestions, showSuggestions, toasts, inputMessage,
          chat, timers, mounted, pc, aiMessageId, now, requests, suggestionsPc,
          received, outcome, lastChunk, reads, appended, response, cancelled,
          rejected>>

\* ChatMessage's isStreaming = false default for a message without the field.
IsStreaming(msg) == IF "isStreaming" \in DOMAIN msg THEN msg.isStreaming ELSE FALSE

\* ------------------------------------------------------------------ lists
RECURSIVE Filter(_, _)
\* The positions of seq kept by Array.prototype.filter, keep[i] deciding.
Filter(seq, keep) ==
    IF seq = <<>> THEN <<>>
    ELSE LET n == Len(seq)
             front == Filter(SubSeq(seq, 1, n - 1), keep)
         IN IF keep[n] THEN Append(front, seq[n]) ELSE front

Init ==
    /\ messages = <<>>
    /\ isLoading = FALSE
    /\ suggestions = <<>>
    /\ showSuggestions = TRUE
    /\ toasts = <<>>
    /\ inputMessage = <<>>
    /\ chat = <<>>
    /\ timers = {}
    /\ mounted = TRUE
    /\ pc = "idle"
    /\ aiMessageId = 0
    /\ now = 0
    /\ requests = 0
    /\ suggestionsPc = "pending"
    /\ received = <<>>
    /\ outcome = "none"
    /\ lastChunk = <<>>
    /\ reads = 0
    /\ appended = <<>>
    /\ response = <<>>
    /\ cancelled = FALSE
    /\ rejected = FALSE

\* ------------------------------------------------------------------ ChatMessage
\* A ChatMessage as useState leaves it on mount.
Mount == [displayedText |-> <<>>, currentIndex |-> 0]

\* ResetEffect without its setCurrentIndex(0).
ResetEffectKeepsIndex(msg, c) ==
    IF IsStreaming(msg) /\ ~msg.isUser
    THEN [c EXCEPT !.displayedText = <<>>]
    ELSE [c EXCEPT !.displayedText = msg.content]

\* The first effect of ChatMessage, run with the props of msg on the state c.
ResetEffect(msg, c) ==
    IF IsStreaming(msg) /\ ~msg.isUser
    THEN [displayedText |-> <<>>, currentIndex |-> 0]
    ELSE [c EXCEPT !.displayedText = msg.content]

\* The state of a ChatMessage after the render that takes its props from prev
\* to next: the first effect runs when one of its dependencies changed.
Rerender(prev, next, c) ==
    IF /\ prev.content = next.content
       /\ IsStreaming(prev) = IsStreaming(next)
       /\ prev.isUser = next.isUser
    THEN c
    ELSE ResetEffect(next, c)

\* TimerPending with the comparison off by one.
TimerPendingAtEnd(i) ==
    /\ IsStreaming(messages[i])
    /\ ~messages[i].isUser
    /\ chat[i].currentIndex <= Len(messages[i].content)

\* TimerPending giving up one character before the end of the text.
TimerPendingShort(i) ==
    /\ IsStreaming(messages[i])
    /\ ~messages[i].isUser
    /\ chat[i].currentIndex + 1 < Len(messages[i].content)

\* TimerPending with the isStreaming test dropped and the comparison off by one.
TimerPendingWhenFinal(i) ==
    /\ ~messages[i].isUser
    /\ chat[i].currentIndex <= Len(messages[i].content)

\* The second effect of ChatMessage has a timer pending for entry i.
TimerPending(i) ==
    /\ IsStreaming(messages[i])
    /\ ~messages[i].isUser
    /\ chat[i].currentIndex < Len(messages[i].content)

\* ClearTimeout with the cleanup of the second effect left out.
ClearTimeoutNever(ts, entries) == ts

\* return () => clearTimeout(timer): the cleanups of the second effect of the
\* ChatMessages at the positions in entries, run before the effect runs again
\* and when the ChatMessage is unmounted.
ClearTimeout(ts, entries) == {t \in ts : t.entry \notin entries}

\* The timers after a commit in which the second effect runs for the
\* ChatMessages at the positions in entries: each cleans up and sets a timer,
\* if its condition holds, whose callback keeps the message and currentIndex
\* of that render.
Reschedule(ts, entries) ==
    ClearTimeout(ts, entries) \cup
        {[entry |-> i, message |-> messages'[i].content,
          index |-> chat'[i].currentIndex] :
            i \in {j \in entries : TimerPending(j)'}}

\* The positions at which a dependency of the second effect changes in a
\* commit that keeps every entry in its place.
Changed ==
    {i \in 1..Len(messages) :
        \/ messages'[i].content # messages[i].content
        \/ IsStreaming(messages'[i]) # IsStreaming(messages[i])
        \/ chat'[i].currentIndex # chat[i].currentIndex}

\* The timers after a commit that unmounts the ChatMessages at the positions
\* keep rejects; the ChatMessages that stay move up.
Unmounted(ts, keep) ==
    LET removed == {i \in DOMAIN keep : ~keep[i]}
    IN {[t EXCEPT !.entry = Cardinality({k \in DOMAIN keep : k <= t.entry /\ keep[k]})] :
            t \in ClearTimeout(ts, removed)}

\* The timer of entry i fires.
TimerFires(i) ==
    /\ mounted
    /\ \E t \in timers :
         /\ t.entry = i
         /\ chat' = [chat EXCEPT ![i] =
                       [displayedText |-> SliceTo(t.message, t.index + 1),
                        currentIndex |-> t.index + 1]]
         /\ messages' = messages
         /\ timers' = Reschedule(timers \ {t}, {i})
    /\ UNCHANGED <<isLoading, suggestions, showSuggestions, toasts, mounted,
                   inputMessage, pc, aiMessageId, now, requests, suggestionsPc,
                   received, outcome, lastChunk, reads, appended, response,
                   cancelled, rejected>>

\* Rendered playing the reveal out from its position whatever the flag says.
RenderedByRevealPosition(i) ==
    SubSeq(messages[i].content, 1, chat[i].currentIndex)

\* The text ChatMessage renders for entry i: {isStreaming ? displayedText : message}
Rendered(i) ==
    IF IsStreaming(messages[i]) THEN chat[i].displayedText ELSE messages[i].content

\* The ChatMessage states after a render in which every entry keeps its place.
RenderMapped(next) ==
    [i \in 1..Len(next) |-> Rerender(messages[i], next[i], chat[i])]

\* ------------------------------------------------------------------ ChatInterface
\* toast({title, description})
Toast(title, description) ==
    Append(toasts, [title |-> title, description |-> description])

\* prevMessages.map(msg => msg.id === aiMessageId
\*                         ? {...msg, content: (msg.content || "") + cleaned} : msg)
AppendCleaned(msgs, cleaned) ==
    [i \in 1..Len(msgs) |->
        IF msgs[i].id = aiMessageId
        THEN [msgs[i] EXCEPT !.content = msgs[i].content \o cleaned]
        ELSE msgs[i]]

\* {...msg, isStreaming: false}
StreamingOff(msg) ==
    [f \in (DOMAIN msg) \cup {"isStreaming"} |->
        IF f = "isStreaming" THEN FALSE ELSE msg[f]]

\* MarkComplete leaving the streaming flag of the entry as it is.
MarkCompleteKeepsFlag(msgs) == msgs

\* prevMessages.map(msg => msg.id === aiMessageId ? {...msg, isStreaming: false} : msg)
MarkComplete(msgs) ==
    [i \in 1..Len(msgs) |->
        IF msgs[i].id = aiMessageId THEN StreamingOff(msgs[i]) ELSE msgs[i]]

\* KeepOnError discarding the entry of the turn only while it is empty.
KeepOnErrorUnlessEmpty(msgs) ==
    [i \in 1..Len(msgs) |-> msgs[i].id # aiMessageId \/ msgs[i].content # <<>>]

\* The predicate of prevMessages.filter(msg => msg.id !== aiMessageId)
KeepOnError(msgs) == [i \in 1..Len(msgs) |-> msgs[i].id # aiMessageId]

\* The errors thrown inside streamAIResponse.
FailedToFetch ==
    [isTypeError |-> TRUE,
     message |-> <<"F", "a", "i", "l", "e", "d", " ", "t", "o", " ",
                   "f", "e", "t", "c", "h">>]
NetworkError ==
    [isTypeError |-> TRUE,
     message |-> <<"n", "e", "t", "w", "o", "r", "k", " ", "e", "r", "r", "o", "r">>]
StatusError ==
    [isTypeError |-> FALSE,
     message |-> <<"Server responded with status: 500 Internal Server Error">>]
NullBodyError ==
    [isTypeError |-> FALSE,
     message |-> <<"Response body is null - streaming not supported">>]
UpstreamError(chunk) ==
    [isTypeError |-> FALSE, message |-> Slice(chunk, 7)]

\* errorMessage of the catch block
ErrorMessage(error) ==
    IF error.isTypeError /\ Includes(error.message, <<"f", "e", "t", "c", "h">>)
    THEN <<"Failed to connect to the server. Please check:",
           "\n* Is the server running on port 6000?\n* Check CORS configuration\n* Verify the server URL">>
    ELSE error.message

\* The entry of the turn in flight: the last one of the log.
InFlight == messages[Len(messages)]

\* Catch without its closing setIsLoading(false).
CatchLeavesLoading(msgs, error) ==
    /\ messages' = Filter(msgs, [i \in 1..Len(msgs) |-> msgs[i].id # aiMessageId])
    /\ chat' = Filter(chat, [i \in 1..Len(msgs) |-> msgs[i].id # aiMessageId])
    /\ timers' = Unmounted(timers, [i \in 1..Len(msgs) |-> msgs[i].id # aiMessageId])
    /\ cancelled' = (cancelled \/ \E t \in timers : t.entry \in 1..Len(msgs)
                                                    /\ msgs[t.entry].id = aiMessageId)
    /\ toasts' = Append(toasts, [title |-> "Connection Error",
                                 description |-> error.message])
    /\ isLoading' = TRUE
    /\ pc' = "idle"
    /\ outcome' = (IF messages # <<>> /\ InFlight.content # <<>>
                   THEN "errorText" ELSE "errorEmpty")
    /\ received' = <<>>
    /\ rejected' = FALSE

\* The catch block of streamAIResponse, msgs being the log with the updates
\* the task queued before the throw.
Catch(msgs, error) ==
    /\ messages' = Filter(msgs, KeepOnError(msgs))
    /\ chat' = Filter(chat, KeepOnError(msgs))
    /\ timers' = Unmounted(timers, KeepOnError(msgs))
    /\ cancelled' = (cancelled \/ \E t \in timers : t.entry \in 1..Len(msgs)
                                                    /\ ~KeepOnError(msgs)[t.entry])
    /\ toasts' = Toast("Connection Error", ErrorMessage(error))
    /\ isLoading' = FALSE
    /\ pc' = "idle"
    /\ outcome' = (IF messages # <<>> /\ InFlight.content # <<>>
                   THEN "errorText" ELSE "errorEmpty")
    /\ received' = <<>>
    /\ rejected' = FALSE

\* Complete without its closing setIsLoading(false).
CompleteLeavesLoading ==
    /\ messages' = MarkComplete(messages)
    /\ chat' = RenderMapped(MarkComplete(messages))
    /\ timers' = Reschedule(timers, Changed)
    /\ isLoading' = TRUE
    /\ pc' = "idle"
    /\ outcome' = "complete"
    /\ received' = <<>>
    /\ rejected' = FALSE
    /\ UNCHANGED <<toasts, cancelled>>

\* The end of the try block of streamAIResponse: mark streaming as complete.
Complete ==
    /\ messages' = MarkComplete(messages)
    /\ chat' = RenderMapped(MarkComplete(messages))
    /\ timers' = Reschedule(timers, Changed)
    /\ isLoading' = FALSE
    /\ pc' = "idle"
    /\ outcome' = "complete"
    /\ received' = <<>>
    /\ rejected' = FALSE
    /\ UNCHANGED <<toasts, cancelled>>

\* NewEntries with the placeholder of the answer put before the question.
NewEntriesAssistantFirst(content, t1, t2) ==
    << [id |-> t2 + 1, content |-> <<>>, isUser |-> FALSE, isStreaming |-> TRUE],
       [id |-> t1, content |-> content, isUser |-> TRUE] >>

\* userMessage and aiMessage of handleSendMessage, in the order in which they
\* are appended; t1 and t2 are the two readings of Date.now().  An id is the
\* number whose decimal form the code keeps.
NewEntries(content, t1, t2) ==
    << [id |-> t1, content |-> content, isUser |-> TRUE],
       [id |-> t2 + 1, content |-> <<>>, isUser |-> FALSE, isStreaming |-> TRUE] >>

\* handleSendMessage(content) up to the await of fetch in streamAIResponse.
HandleSendMessage(content) ==
    /\ mounted
    /\ requests < MaxTurns
    /\ \E e \in (IF requests = 0 THEN FirstReading ELSE Elapsed), b \in Between :
         LET t1 == now + e
             t2 == t1 + b
             entries == NewEntries(content, t1, t2)
         IN /\ messages' = messages \o entries
            /\ chat' = chat \o <<ResetEffect(entries[1], Mount),
                                 ResetEffect(entries[2], Mount)>>
            /\ timers' = Reschedule(timers, {Len(messages) + 1, Len(messages) + 2})
            /\ aiMessageId' = t2 + 1
            /\ now' = t2
    /\ isLoading' = TRUE
    /\ requests' = requests + 1
    /\ pc' = "fetch"
    /\ received' = <<>>
    /\ outcome' = "none"
    /\ rejected' = FALSE
    /\ lastChunk' = <<>>
    /\ appended' = <<>>
    /\ response' = <<>>
    /\ cancelled' = FALSE
    /\ UNCHANGED <<suggestions, toasts, suggestionsPc, reads, mounted>>

\* CardRendered with the cards kept on screen beside the messages.
CardRenderedBesideMessages ==
    /\ showSuggestions
    /\ Len(suggestions) > 0

\* The card of a suggestion is rendered.
CardRendered ==
    /\ Len(messages) = 0
    /\ showSuggestions
    /\ Len(suggestions) > 0

handleSuggestionClick ==
    /\ CardRendered
    /\ showSuggestions' = FALSE
    /\ HandleSendMessage(suggestions[1])
    /\ UNCHANGED inputMessage

\* The GET of api/suggestions of the mount effect settles.
fetchSuggestions ==
    /\ suggestionsPc = "pending"
    /\ suggestionsPc' = "settled"
    /\ \/ /\ suggestions' = (IF mounted THEN <<Question>> ELSE suggestions)
          /\ UNCHANGED toasts
       \/ /\ toasts' = Toast("Error", <<"Failed to load suggestions. Please try again later.">>)
          /\ UNCHANGED suggestions
    /\ UNCHANGED <<messages, isLoading, showSuggestions, inputMessage, chat, pc,
                   aiMessageId, now, requests, received, outcome, lastChunk, reads,
                   appended, response, rejected, timers, mounted, cancelled>>

\* ------------------------------------------------------------------ ChatInput
\* The textarea is disabled while isLoading.
handleInputChange ==
    /\ mounted
    /\ ~isLoading
    /\ \E value \in Typed : inputMessage' = value
    /\ UNCHANGED <<messages, isLoading, suggestions, showSuggestions, toasts, chat,
                   pc, aiMessageId, now, requests, suggestionsPc, received, outcome,
                   lastChunk, reads, appended, response, rejected, timers, mounted,
                   cancelled>>

\* MaySend without the isLoading test.
MaySendWhileLoading == Trim(inputMessage) # <<>>

\* The condition of handleSend.
MaySend == Trim(inputMessage) # <<>> /\ ~isLoading

\* handleSend, from the button or from the Enter key.
handleSend ==
    /\ mounted
    /\ IF MaySend
       THEN /\ HandleSendMessage(Trim(inputMessage))
            /\ inputMessage' = <<>>
            /\ UNCHANGED showSuggestions
       ELSE /\ rejected' = (rejected \/ isLoading)
            /\ UNCHANGED <<messages, isLoading, suggestions, showSuggestions, toasts,
                           inputMessage, chat, pc, aiMessageId, now, requests,
                           suggestionsPc, received, outcome, lastChunk, reads,
                           appended, response, timers, mounted, cancelled>>

handleKeyPress ==
    /\ mounted
    /\ \E key \in {"Enter", "a"}, shiftKey \in BOOLEAN :
        IF key = "Enter" /\ ~shiftKey
        THEN handleSend
        ELSE UNCHANGED vars

\* ------------------------------------------------------------------ streamAIResponse
\* What no continuation of streamAIResponse touches.
StreamFrame ==
    UNCHANGED <<suggestions, showSuggestions, inputMessage, aiMessageId, now,
                requests, suggestionsPc, mounted>>

\* ResponseError without the test of response.ok.
ResponseErrorBodyOnly(ok, body) ==
    IF ~body THEN <<NullBodyError>> ELSE <<>>

\* What the two tests after the await of fetch throw, if anything.
ResponseError(ok, body) ==
    IF ~ok THEN <<StatusError>>
    ELSE IF ~body THEN <<NullBodyError>>
    ELSE <<>>

\* fetch rejects: the request never got a response.
FetchRejects ==
    /\ pc = "fetch"
    /\ Catch(messages, FailedToFetch)
    /\ UNCHANGED <<reads, lastChunk, appended, response>>
    /\ StreamFrame

\* fetch resolves with a response.
FetchResolves ==
    /\ pc = "fetch"
    /\ \E ok \in BOOLEAN, body \in BOOLEAN :
         /\ response' = <<[ok |-> ok, body |-> body]>>
         /\ IF ResponseError(ok, body) # <<>>
            THEN Catch(messages, ResponseError(ok, body)[1])
            ELSE /\ pc' = "read"
                 /\ UNCHANGED <<messages, chat, toasts, isLoading, outcome,
                                received, rejected, timers, cancelled>>
    /\ UNCHANGED <<reads, lastChunk, appended>>
    /\ StreamFrame

\* String.prototype.replace(pat, ""): the first match only.
RECURSIVE ReplaceFirst(_, _)
ReplaceFirst(s, pat) ==
    IF Len(s) < Len(pat) THEN s
    ELSE IF SubSeq(s, 1, Len(pat)) = pat
         THEN SubSeq(s, Len(pat) + 1, Len(s))
         ELSE <<Head(s)>> \o ReplaceFirst(Tail(s), pat)

\* Cleaned with the removal of the sentinel left out.
CleanedNothing(chunk) == chunk

\* Cleaned with the g flag of the pattern forgotten.
CleanedFirstOnly(chunk) == ReplaceFirst(chunk, ENDOFTEXT)

\* const cleaned = chunk.replace(/<\|endoftext\|>/g, "")
Cleaned(chunk) == ReplaceAll(chunk, ENDOFTEXT)

\* IsDone comparing the chunk with the marker instead of searching it.
IsDoneEquals(chunk) == chunk = DONE

\* if (chunk.includes('[DONE]')) break
IsDone(chunk) == Includes(chunk, DONE)

\* if (chunk.startsWith('ERROR:'))
IsError(chunk) == StartsWith(chunk, ERRORPREFIX)

\* The log after the setMessages of one pass of the loop body.
AfterChunk(chunk) ==
    IF Cleaned(chunk) # <<>> THEN AppendCleaned(messages, Cleaned(chunk)) ELSE messages

\* reader.read() resolves with a chunk of pool: one pass of the loop body.
ReadChunkFrom(pool) ==
    /\ pc = "read"
    /\ reads < MaxChunks
    /\ reads' = reads + 1
    /\ \E chunk \in pool :
         /\ lastChunk' = <<chunk>>
         /\ IF chunk = <<>>
            THEN /\ received' = Append(received, chunk)
                 /\ appended' = <<>>
                 /\ UNCHANGED <<messages, chat, toasts, isLoading, pc, outcome,
                                rejected, timers, cancelled>>
            ELSE IF IsDone(chunk)
            THEN /\ Complete
                 /\ appended' = <<>>
            ELSE IF IsError(chunk)
            THEN /\ Catch(AfterChunk(chunk), UpstreamError(chunk))
                 /\ appended' = Cleaned(chunk)
            ELSE /\ received' = Append(received, chunk)
                 /\ appended' = Cleaned(chunk)
                 /\ messages' = AfterChunk(chunk)
                 /\ chat' = RenderMapped(AfterChunk(chunk))
                 /\ timers' = Reschedule(timers, Changed)
                 /\ UNCHANGED <<toasts, isLoading, pc, outcome, rejected, cancelled>>
    /\ UNCHANGED response
    /\ StreamFrame

ReadChunk == ReadChunkFrom(Chunks)

\* reader.read() resolves with a chunk of a response cut inside a sentinel.
ReadSplitChunk == ReadChunkFrom(SplitChunks)

\* reader.read() resolves with done.
ReadDone ==
    /\ pc = "read"
    /\ Complete
    /\ lastChunk' = <<>>
    /\ appended' = <<>>
    /\ UNCHANGED <<reads, response>>
    /\ StreamFrame

\* reader.read() rejects: the connection broke.
ReadRejects ==
    /\ pc = "read"
    /\ Catch(messages, NetworkError)
    /\ lastChunk' = <<>>
    /\ appended' = <<>>
    /\ UNCHANGED <<reads, response>>
    /\ StreamFrame

\* React unmounts the view: the cleanups of the ChatMessages run and the
\* state of ChatInterface, ChatInput and the ChatMessages is gone.  A
\* streamAIResponse in flight is not told and goes on.
Unmount ==
    /\ mounted
    /\ mounted' = FALSE
    /\ timers' = ClearTimeout(timers, 1..Len(messages))
    /\ cancelled' = (cancelled \/ timers # {})
    /\ messages' = <<>>
    /\ chat' = <<>>
    /\ isLoading' = FALSE
    /\ suggestions' = <<>>
    /\ showSuggestions' = TRUE
    /\ inputMessage' = <<>>
    /\ rejected' = FALSE
    /\ UNCHANGED <<toasts, pc, aiMessageId, now, requests, suggestionsPc, received,
                   outcome, lastChunk, reads, appended, response>>

Next ==
    \/ handleInputChange
    \/ handleSend
    \/ handleKeyPress
    \/ handleSuggestionClick
    \/ fetchSuggestions
    \/ FetchRejects
    \/ FetchResolves
    \/ ReadChunk
    \/ ReadDone
    \/ ReadRejects
    \/ \E i \in 1..Len(messages) : TimerFires(i)
    \/ Unmount

Spec == Init /\ [][Next]_vars

\* The program reading responses whose chunk boundaries fall inside a sentinel.
SplitNext ==
    \/ handleInputChange
    \/ handleSend
    \/ handleKeyPress
    \/ handleSuggestionClick
    \/ fetchSuggestions
    \/ FetchRejects
    \/ FetchResolves
    \/ ReadSplitChunk
    \/ ReadDone
    \/ ReadRejects
    \/ \E i \in 1..Len(messages) : TimerFires(i)
    \/ Unmount

SplitSpec == Init /\ [][SplitNext]_vars

\* A request that was issued settles, and a response that is being read ends:
\* the promise of fetch and the promises of reader.read() do not stay pending
\* for ever.
\* A timer that is set and not cleared fires.
TimerSpec ==
    /\ Spec
    /\ WF_vars(\E i \in 1..Len(messages) : TimerFires(i))

LiveSpec ==
    /\ Spec
    /\ WF_vars(FetchRejects \/ FetchResolves)
    /\ WF_vars(ReadDone \/ ReadRejects)

\* ------------------------------------------------------------------ claims
\* The ways a turn ends in the catch block.
Errors == {"errorEmpty", "errorText"}

\* The step in which the turn in flight ends in the catch block.
AbortStep == mounted /\ outcome = "none" /\ outcome' \in Errors

\* The step in which reader.read() reports the end of the stream.
StreamEndStep ==
    mounted /\ pc = "read" /\ outcome' = "complete" /\ reads' = reads

\* The step in which a chunk holding the marker [DONE] is read.
DoneStep ==
    /\ mounted
    /\ pc = "read"
    /\ reads' = reads + 1
    /\ Len(lastChunk') = 1
    /\ Includes(lastChunk'[1], DONE)

\* The step in which a chunk beginning with ERROR: is read.
ErrorChunkStep ==
    /\ pc = "read"
    /\ reads' = reads + 1
    /\ Len(lastChunk') = 1
    /\ StartsWith(lastChunk'[1], ERRORPREFIX)
    /\ ~Includes(lastChunk'[1], DONE)

\* The fragments, each with every occurrence of the sentinel removed, joined in
\* the order of arrival.
RECURSIVE Concatenation(_)
Concatenation(fragments) ==
    IF fragments = <<>> THEN <<>>
    ELSE ReplaceAll(Head(fragments), ENDOFTEXT) \o Concatenation(Tail(fragments))

\* C1: when the stream ends after fragments none of which holds [DONE] or
\* begins with ERROR:, the text of the assistant entry is the concatenation, in
\* arrival order, of the fragments with every <|endoftext|> removed.
C1_FinalTextIsConcatenation ==
    [][ ( /\ StreamEndStep
          /\ \A k \in 1..Len(received) :
                ~Includes(received[k], DONE) /\ ~StartsWith(received[k], ERRORPREFIX) )
        => /\ Len(messages') = Len(messages)
           /\ ~messages'[Len(messages')].isUser
           /\ messages'[Len(messages')].content = Concatenation(received) ]_vars

\* C1's case: a stream of "a" and "a<|endoftext|>b<|endoftext|>" has ended.
C1_Witness ==
    /\ pc = "idle"
    /\ outcome = "complete"
    /\ lastChunk = <<>>
    /\ Len(messages) > 0
    /\ messages[Len(messages)].content = <<"a", "a", "b">>

\* C2: a fragment beginning with ERROR: aborts the turn, and the notification
\* shows the remainder after the prefix (read here with or without the one
\* space that may follow the colon).
C2_ErrorRemainderSurfaced ==
    [][ ErrorChunkStep
        => LET remainder == SubSeq(lastChunk'[1], Len(ERRORPREFIX) + 1, Len(lastChunk'[1]))
           IN /\ outcome' \in Errors
              /\ Len(toasts') = Len(toasts) + 1
              /\ \/ toasts'[Len(toasts')].description = remainder
                 \/ /\ remainder # <<>>
                    /\ Head(remainder) = " "
                    /\ toasts'[Len(toasts')].description = Tail(remainder) ]_vars

\* C3 as written: on an abort the assistant entry is removed only if its text
\* is still empty, and otherwise stays in the log with streaming off.
C3_RemovedOnlyIfEmpty ==
    [][ AbortStep
        => IF InFlight.content = <<>>
           THEN \A i \in 1..Len(messages') : messages'[i].id # aiMessageId
           ELSE \E i \in 1..Len(messages') :
                   /\ messages'[i].id = aiMessageId
                   /\ messages'[i].content = InFlight.content
                   /\ ~IsStreaming(messages'[i]) ]_vars

\* C3 as amended: on an abort the assistant entry of the turn is removed from
\* the log whether or not it holds text; no entry of the turn is left behind.
C3_RemovedOnAbort ==
    [][ AbortStep
        => /\ \A i \in 1..Len(messages') : messages'[i].id # aiMessageId
           /\ Len(messages') < Len(messages)
           /\ \A i \in 1..Len(messages') : ~IsStreaming(messages'[i]) ]_vars

\* C3's case: a turn whose entry held text was aborted, and the entry is gone.
C3_Witness ==
    /\ outcome = "errorText"
    /\ pc = "idle"
    /\ \A i \in 1..Len(messages) : messages[i].id # aiMessageId

\* C4: the reveal position of an entry never decreases (compared where the
\* log keeps its length, so that every entry keeps its place).
C4_RevealNeverDecreases ==
    [][ Len(messages') = Len(messages)
        => \A i \in 1..Len(messages) :
              chat'[i].currentIndex >= chat[i].currentIndex ]_vars

\* C5: at most one entry of the log is streaming.
C5_AtMostOneStreaming ==
    Cardinality({i \in 1..Len(messages) : IsStreaming(messages[i])}) <= 1

\* C5's case: the second turn is in flight after the first completed.
C5_Witness ==
    /\ Len(messages) = 4
    /\ IsStreaming(messages[4])
    /\ ~IsStreaming(messages[2])
    /\ isLoading

\* C6: while a turn is in flight no step issues a request or adds an entry,
\* and a submission refused leaves the log and the turn as they were.
C6_SubmitWhileLoadingIsNoOp ==
    [][ isLoading
        => /\ requests' = requests
           /\ Len(messages') <= Len(messages)
           /\ (rejected' /\ ~rejected) => (messages' = messages /\ isLoading' /\ pc' = pc)
       ]_vars

\* C6's case: handleSend was called with text in the textarea during a turn.
C6_Witness ==
    /\ isLoading
    /\ rejected
    /\ Trim(inputMessage) # <<>>

\* C7: a fragment holding [DONE] anywhere ends the turn normally: the assistant
\* entry stays with streaming off, no text of the log changes, the
\* orchestrator is idle, and no fragment is read until the next submission.
C7_DoneTerminates ==
    [][ /\ DoneStep
           => /\ pc' = "idle"
              /\ ~isLoading'
              /\ outcome' = "complete"
              /\ Len(messages') = Len(messages)
              /\ \A i \in 1..Len(messages) : messages'[i].content = messages[i].content
              /\ messages'[Len(messages')].id = aiMessageId
              /\ ~IsStreaming(messages'[Len(messages')])
              /\ toasts' = toasts
        /\ pc = "idle" => reads' = reads ]_vars

\* C7's case: "a" was appended, then "a[DONE]b" ended the turn.
C7_Witness ==
    /\ lastChunk = << <<"a">> \o DONE \o <<"b">> >>
    /\ pc = "idle"
    /\ Len(messages) > 0
    /\ messages[Len(messages)].content = <<"a">>
    /\ ~messages[Len(messages)].isUser

\* C8: a turn that aborts surfaces exactly one notification, issues no request
\* and leaves the orchestrator idle with isLoading false; a request is only
\* ever issued together with the two entries of a submission.
C8_AbortNotifiesOnce ==
    [][ /\ AbortStep
           => /\ Len(toasts') = Len(toasts) + 1
              /\ SubSeq(toasts', 1, Len(toasts)) = toasts
              /\ toasts'[Len(toasts')].title = "Connection Error"
              /\ requests' = requests
              /\ ~isLoading'
              /\ pc' = "idle"
        /\ requests' # requests
           => /\ requests' = requests + 1
              /\ Len(messages') = Len(messages) + 2 ]_vars

\* C8's case: the only turn so far was aborted.
C8_Witness ==
    /\ outcome \in Errors
    /\ requests = 1
    /\ ~isLoading
    /\ \E k \in 1..Len(toasts) : toasts[k].title = "Connection Error"

\* C9: the reveal position of an entry never exceeds the length of its text.
C9_RevealWithinText ==
    \A i \in 1..Len(messages) : chat[i].currentIndex <= Len(messages[i].content)

\* C9's case: the reveal of a streaming entry has caught up with its text.
C9_Witness ==
    \E i \in 1..Len(messages) :
        /\ IsStreaming(messages[i])
        /\ Len(messages[i].content) >= 2
        /\ chat[i].currentIndex = Len(messages[i].content)

\* C10: an entry whose streaming flag is off is never changed again (compared
\* where the log does not shrink, so that every entry keeps its place).
C10_FinalEntryNeverChanges ==
    [][ Len(messages') >= Len(messages)
        => \A i \in 1..Len(messages) :
              ~IsStreaming(messages[i]) => messages'[i] = messages[i] ]_vars

\* The assistant entries whose streaming flag is off and whose reveal position
\* equals the length of their text.
Settled ==
    {i \in 1..Len(messages) :
        /\ ~messages[i].isUser
        /\ ~IsStreaming(messages[i])
        /\ chat[i].currentIndex = Len(messages[i].content)}

\* C11: an assistant entry with streaming off whose reveal position equals the
\* length of its text has no typewriter timer pending, and a step that leaves
\* the log alone (a tick is the only step that changes a reveal and not the
\* log) leaves its reveal position and its displayed text unchanged.
C11_SettledEntryHasNoTimer ==
    [][ \A i \in Settled :
           /\ ~TimerPending(i)
           /\ \A t \in timers : t.entry # i
           /\ messages' = messages => chat'[i] = chat[i] ]_vars

\* C11's case: a turn ended after the reveal had caught up with the text "a",
\* and a second turn is being revealed beside it.
C11_Witness ==
    \E i \in Settled :
        /\ messages[i].content = <<"a">>
        /\ chat[i].displayedText = <<"a">>
        /\ \E j \in 1..Len(messages) : j # i /\ chat[j].currentIndex > 0
                                          /\ IsStreaming(messages[j])

\* C12: a fragment beginning with ERROR: (and without [DONE]) fails the turn
\* without any of its text being appended: the pass of the read loop that read
\* it handed no text to the assistant entry.
C12_ErrorTextNeverAppended ==
    \A k \in 1..Len(lastChunk) :
        (StartsWith(lastChunk[k], ERRORPREFIX) /\ ~Includes(lastChunk[k], DONE))
        => appended = <<>>

\* C13: a turn in flight eventually returns to idle with isLoading false, when
\* the request settles and the response ends.
C13_TurnReturnsToIdle ==
    (isLoading \/ pc # "idle") ~> (~isLoading /\ pc = "idle")

\* C13's case: two turns were accepted and both returned to idle, the last
\* one through the end of its stream.
C13_Witness ==
    /\ requests = 2
    /\ reads > 0
    /\ outcome = "complete"
    /\ pc = "idle"
    /\ ~isLoading

\* The step in which a submission is accepted: a request is issued.
SubmitStep == requests' # requests

\* C14: a submission is accepted in idle only; it puts the turn in flight,
\* issues exactly one request and extends the log by exactly two entries, in
\* order: the user entry with the submitted text and no streaming flag, then
\* the assistant entry with empty text and streaming on.  The earlier entries
\* keep their place and their content.
C14_SubmissionAddsTwoEntries ==
    [][ SubmitStep
        => LET n == Len(messages)
               submitted == IF Trim(inputMessage) # <<>> /\ inputMessage' = <<>>
                            THEN Trim(inputMessage)
                            ELSE suggestions[1]
           IN /\ ~isLoading /\ pc = "idle"
              /\ isLoading' /\ pc' = "fetch"
              /\ requests' = requests + 1
              /\ Len(messages') = n + 2
              /\ SubSeq(messages', 1, n) = messages
              /\ messages'[n + 1].isUser
              /\ messages'[n + 1].content = submitted
              /\ "isStreaming" \notin DOMAIN messages'[n + 1]
              /\ ~messages'[n + 2].isUser
              /\ messages'[n + 2].content = <<>>
              /\ messages'[n + 2].isStreaming
              /\ messages'[n + 2].id = aiMessageId' ]_vars

\* C14's case: the second submission was accepted after a first turn whose two
\* entries are still in the log.
C14_Witness ==
    /\ requests = 2
    /\ pc = "fetch"
    /\ Len(messages) = 4
    /\ messages[2].content = <<"a">>
    /\ messages[3].content = <<"q">>

\* C15: when the stream ends without [DONE] and without an error, the turn
\* completes normally: the log keeps its entries and their text, the assistant
\* entry of the turn is the last one and has streaming off, nothing is
\* notified, and the orchestrator is idle.
C15_StreamEndCompletes ==
    [][ StreamEndStep
        => /\ Len(messages') = Len(messages)
           /\ \A i \in 1..Len(messages) :
                 /\ messages'[i].content = messages[i].content
                 /\ messages'[i].id = messages[i].id
           /\ InFlight.id = aiMessageId
           /\ ~IsStreaming(messages'[Len(messages')])
           /\ \A i \in 1..Len(messages') : ~IsStreaming(messages'[i])
           /\ toasts' = toasts
           /\ ~isLoading'
           /\ pc' = "idle" ]_vars

\* C15's case: the stream ended after the single fragment "a", which stays
\* as the text of the assistant entry.
C15_Witness ==
    /\ outcome = "complete"
    /\ lastChunk = <<>>
    /\ reads = 1
    /\ pc = "idle"
    /\ Len(messages) = 2
    /\ messages[2].content = <<"a">>
    /\ ~IsStreaming(messages[2])

\* The step in which a chunk is read that neither ends nor aborts the turn.
FragmentStep == mounted /\ pc = "read" /\ pc' = "read" /\ reads' = reads + 1

\* C16: receiving a fragment changes only the assistant entry in flight, whose
\* text gains the fragment without its sentinels as a suffix; every other
\* entry, the order and the length of the log are unchanged.
C16_FragmentChangesOnlyInFlight ==
    [][ FragmentStep
        => LET n == Len(messages)
           IN /\ Len(messages') = n
              /\ \A i \in 1..(n - 1) : messages'[i] = messages[i]
              /\ messages'[n] =
                    [InFlight EXCEPT !.content =
                        @ \o ReplaceAll(lastChunk'[1], ENDOFTEXT)] ]_vars

\* C17: once a response has a non-success status or no body, the turn has
\* aborted without a fragment being read: nothing was appended in the turn,
\* its assistant entry is gone, the error was notified, and the orchestrator
\* is idle.
C17_BadResponseAbortsBeforeReading ==
    \A k \in 1..Len(response) :
        (~response[k].ok \/ ~response[k].body)
        => /\ pc = "idle"
           /\ ~isLoading
           /\ outcome = "errorEmpty"
           /\ lastChunk = <<>>
           /\ appended = <<>>
           /\ \A i \in 1..Len(messages) : messages[i].id # aiMessageId
           /\ \E t \in 1..Len(toasts) :
                 /\ toasts[t].title = "Connection Error"
                 /\ toasts[t].description =
                       (IF response[k].ok THEN NullBodyError.message
                                          ELSE StatusError.message)

\* C17's case: the response of the second turn had status 500, after a first
\* turn that left its two entries.
C17_Witness ==
    /\ response = <<[ok |-> FALSE, body |-> TRUE]>>
    /\ requests = 2
    /\ Len(messages) = 3

\* The step in which a chunk is read that is empty once its sentinels are
\* removed: the empty chunk, or a chunk of sentinels only.
EmptyFragmentStep ==
    /\ mounted
    /\ pc = "read"
    /\ reads' = reads + 1
    /\ Len(lastChunk') = 1
    /\ ReplaceAll(lastChunk'[1], ENDOFTEXT) = <<>>

\* C18: a fragment whose text without sentinels is empty is a no-op: the log,
\* the reveals, the notifications and the state of the turn are unchanged, and
\* reading continues.
C18_EmptyFragmentIsNoOp ==
    [][ EmptyFragmentStep
        => /\ messages' = messages
           /\ chat' = chat
           /\ toasts' = toasts
           /\ isLoading' = isLoading
           /\ outcome' = outcome
           /\ pc' = "read" ]_vars

\* C18's case: a chunk that is one sentinel was read after the fragment "a",
\* and the turn is still reading.
C18_Witness ==
    /\ lastChunk = <<ENDOFTEXT>>
    /\ pc = "read"
    /\ isLoading
    /\ InFlight.content = <<"a">>

\* Every timer that is set belongs to a mounted, streaming assistant entry of
\* the log and its callback holds the entry's present text and reveal position.
TimersLive ==
    \A t \in timers :
        /\ mounted
        /\ t.entry \in 1..Len(messages)
        /\ ~messages[t.entry].isUser
        /\ IsStreaming(messages[t.entry])
        /\ t.message = messages[t.entry].content
        /\ t.index = chat[t.entry].currentIndex

\* The step in which the view unmounts.
UnmountStep == mounted /\ ~mounted'

\* C19: when the assistant entry is removed on an abort, when a new turn starts
\* and when the view unmounts, no timer of an affected entry stays set (no
\* timer is ever set for an entry that is gone, final or superseded, and none
\* at all after the start of a turn or the unmount), a reveal only advances
\* through a timer that is set, and neither an abort nor an unmount nor any
\* step after the unmount issues a request.
C19_TimersCancelledNoRetry ==
    /\ []TimersLive
    /\ [][ /\ (SubmitStep \/ UnmountStep) => timers' = {}
           /\ AbortStep => \A t \in timers' : messages'[t.entry].id # aiMessageId
           /\ (AbortStep \/ UnmountStep \/ ~mounted) => requests' = requests
           /\ \A i \in 1..Len(messages) :
                 (messages' = messages /\ chat'[i] # chat[i])
                 => \E t \in timers : t.entry = i /\ t \notin timers' ]_vars

\* C19's case: the turn aborted on an error while a timer of its assistant
\* entry, which held text, was pending; the entry and the timer are gone.
C19_Witness ==
    /\ mounted
    /\ cancelled
    /\ outcome = "errorText"
    /\ timers = {}
    /\ \A i \in 1..Len(messages) : messages[i].id # aiMessageId

\* The reveal of the assistant entry in flight has reached the end of its text.
CaughtUp ==
    /\ mounted
    /\ pc = "read"
    /\ chat[Len(messages)].currentIndex = Len(InFlight.content)
    /\ chat[Len(messages)].displayedText = InFlight.content

\* C20: a step that changes a reveal and not the log (a tick) happens only for
\* a streaming entry whose reveal position is below the length of its text,
\* advances that position by exactly one and changes no other entry's reveal;
\* and while the response is being read the reveal of the entry in flight
\* eventually reaches the length of the text accumulated, unless the turn
\* ends or the view unmounts first.
C20_TickAdvancesByOne ==
    /\ [][ \A i \in 1..Len(messages) :
             (messages' = messages /\ chat'[i] # chat[i])
             => /\ IsStreaming(messages[i])
                /\ chat[i].currentIndex < Len(messages[i].content)
                /\ chat'[i].currentIndex = chat[i].currentIndex + 1
                /\ chat'[i].displayedText =
                      SubSeq(messages[i].content, 1, chat[i].currentIndex + 1)
                /\ \A j \in 1..Len(messages) : j # i => chat'[j] = chat[j] ]_vars
    /\ (mounted /\ pc = "read") ~> (CaughtUp \/ pc # "read" \/ ~mounted)

\* C20's case: the reveal has reached the end of the text "aab" of the entry
\* in flight while the response is still being read.
C20_Witness ==
    /\ CaughtUp
    /\ InFlight.content = <<"a", "a", "b">>
    /\ timers = {}

\* C21: the text displayed for a streaming assistant entry is the prefix of the
\* entry's text whose length is the reveal position.
C21_DisplayedIsRevealedPrefix ==
    \A i \in 1..Len(messages) :
        (IsStreaming(messages[i]) /\ ~messages[i].isUser)
        => /\ chat[i].currentIndex <= Len(messages[i].content)
           /\ chat[i].displayedText =
                 SubSeq(messages[i].content, 1, chat[i].currentIndex)

\* C21's case: a second fragment arrived during the reveal of the first and
\* one character of the text "aa" has been revealed since.
C21_Witness ==
    /\ mounted
    /\ pc = "read"
    /\ reads = 2
    /\ IsStreaming(InFlight)
    /\ InFlight.content = <<"a", "a">>
    /\ chat[Len(messages)].currentIndex = 1
    /\ chat[Len(messages)].displayedText = <<"a">>

\* C22: an assistant entry whose streaming flag is off is rendered with its
\* full text, whatever its reveal position, and its displayed text is the
\* full text as well.
C22_FinalEntryShowsFullText ==
    \A i \in 1..Len(messages) :
        (~messages[i].isUser /\ ~IsStreaming(messages[i]))
        => /\ Rendered(i) = messages[i].content
           /\ chat[i].displayedText = messages[i].content

\* C22's case: the turn completed when one of the three characters of "aab"
\* had been revealed, and the entry is rendered in full.
C22_Witness ==
    \E i \in 1..Len(messages) :
        /\ ~messages[i].isUser
        /\ ~IsStreaming(messages[i])
        /\ messages[i].content = <<"a", "a", "b">>
        /\ chat[i].currentIndex = 1
        /\ Rendered(i) = <<"a", "a", "b">>

\* C23: the text of an assistant entry holds no occurrence of [DONE] and none
\* of <|endoftext|>.
C23_NoSentinelInText ==
    \A i \in 1..Len(messages) :
        ~messages[i].isUser
        => /\ ~Includes(messages[i].content, DONE)
           /\ ~Includes(messages[i].content, ENDOFTEXT)
====
